---- MODULE Spec2Model ----
(***************************************************************************)
(* A model of pov_fabric.py (Fabric helpers): the instance registry, the   *)
(* with_params() constructor, install_packages(), the ensure_*() helpers,  *)
(* git_clone() and changelog().                                            *)
(*                                                                         *)
(* Text is modelled structurally.  An instance name is the sequence of its *)
(* characters, so that name.replace('-', '_') and sorted() are computed.   *)
(* A shell word list ("foo bar") is the sequence of its words.             *)
(* Every function of the module is one atomic action: the program is       *)
(* single threaded and each helper runs to completion (or aborts).         *)
(***************************************************************************)
EXTENDS Integers, Sequences, FiniteSets, TLC

VARIABLES
    has_instances,  \* hasattr(env, 'instances')
    instances,      \* env.instances: name -> Instance
    instance,       \* env.instance: [set |-> BOOLEAN, name |-> name]
    f_globals,      \* namespace of the defining module: key -> selector task
    params,         \* the **params given to Instance.with_params
    kw,             \* the **kw given to the generated __init__
    obj,            \* outcome of the generated __init__
    installed,      \* remote: set of installed packages
    apt_fresh,      \* remote: /var/lib/apt/lists modified within the last day
    dir_exists,     \* remote: dirname(known_hosts) exists
    known_hosts,    \* remote: [exists |-> BOOLEAN, lines |-> Seq(key)]
    users,          \* remote: system users
    pg_roles,       \* remote: PostgreSQL roles
    pg_dbs,         \* remote: PostgreSQL databases, dbname -> owner
    git_dirs,       \* remote: work dirs that contain a .git directory
    ssh_auth_sock,  \* remote: value of $SSH_AUTH_SOCK
    describe_out,   \* remote: raw output of "git describe --always"
    script_exists,  \* remote: /usr/sbin/new-changelog-entry exists
    call,           \* the last call: function and arguments
    again,          \* the last call repeated the call before it, which returned
    cmds,           \* the remote commands the last call issued, in order
    ret             \* the outcome of the last call

registry_vars == <<has_instances, instances, instance, f_globals>>
params_vars   == <<params, kw, obj>>
apt_vars      == <<installed, apt_fresh>>
ensure_vars   == <<dir_exists, known_hosts, users, pg_roles, pg_dbs>>
git_vars      == <<git_dirs, ssh_auth_sock, describe_out>>
log_vars      == <<call, again, cmds, ret>>
vars == <<has_instances, instances, instance, f_globals, params, kw, obj,
          installed, apt_fresh, dir_exists, known_hosts, users, pg_roles,
          pg_dbs, git_dirs, ssh_auth_sock, describe_out, script_exists,
          call, again, cmds, ret>>

\* The empty mapping ({} in Python).
EmptyMap == [x \in {} |-> x]

\* Record the call c, and whether it repeats the previous call after that
\* call returned.
Called(c) ==
    /\ call' = c
    /\ again' = (c = call /\ ret.status = "ok")

\* range of a sequence
Range(s) == {s[i] : i \in DOMAIN s}

-----------------------------------------------------------------------------
(* Instance names                                                          *)

\* ord() of the characters used in names
Ord(c) ==
    CASE c = "-" -> 45
      [] c = "1" -> 49
      [] c = "_" -> 95
      [] c = "d" -> 100
      [] c = "o" -> 111
      [] c = "p" -> 112
      [] c = "r" -> 114
      [] c = "w" -> 119

Web_dash  == <<"w", "-", "1">>
Web_under == <<"w", "_", "1">>
Prod      == <<"p", "r", "o", "d">>
NoName    == <<>>                      \* the empty string ''

Names == {Web_dash, Web_under, Prod, NoName}
Hosts == {"h1", "h2"}

\* An optional name: None is [set |-> FALSE, name |-> NoName].
None == [set |-> FALSE, name |-> NoName]
Some(n) == [set |-> TRUE, name |-> n]
OptNames == {None} \cup {Some(n) : n \in Names}

\* Python truthiness of an optional string: None and '' are false.
Truthy(o) == o.set /\ o.name # NoName

\* s1 < s2 in Python's string order
LexLess(s1, s2) ==
    \E i \in 1..(Len(s2)) :
        /\ \A j \in 1..(i - 1) : j <= Len(s1) /\ s1[j] = s2[j]
        /\ \/ i = Len(s1) + 1
           \/ i <= Len(s1) /\ Ord(s1[i]) < Ord(s2[i])

RECURSIVE sorted(_)
sorted(S) ==
    IF S = {} THEN <<>>
    ELSE LET m == CHOOSE x \in S : \A y \in S \ {x} : LexLess(x, y)
         IN  <<m>> \o sorted(S \ {m})

\* sep.join(seq) for a sequence of character sequences
RECURSIVE join(_, _)
join(sep, seq) ==
    IF seq = <<>> THEN <<>>
    ELSE IF Len(seq) = 1 THEN seq[1]
    ELSE seq[1] \o sep \o join(sep, Tail(seq))

\* name.replace('-', '_')
replace(name) == [i \in DOMAIN name |-> IF name[i] = "-" THEN "_" ELSE name[i]]

-----------------------------------------------------------------------------
(* Instance registry                                                       *)

\* Instance.__init__(name, host)
Instance(name, host) == [name |-> name, host |-> host]

\* The mapping m with key k bound to v (m[k] = v in Python).
SetItem(m, k, v) == [x \in (DOMAIN m) \cup {k} |-> IF x = k THEN v ELSE m[x]]

\* _define_instance without the test for an existing name
define_never_aborts(name) == FALSE

\* _define_instance: TRUE when it aborts
define_aborts(name) == name \in DOMAIN instances

\* Instance.define(name, host): construct, register, define the selector task
define(name, host) ==
    /\ Called([fn |-> "define", name |-> name, host |-> host])
    /\ cmds' = <<>>
    /\ has_instances' = TRUE
    /\ IF define_aborts(name)
       THEN /\ ret' = [status |-> "abort", msg |-> "already defined", name |-> name]
            /\ UNCHANGED <<instances, f_globals>>
       ELSE /\ instances' = SetItem(instances, name, Instance(name, host))
            /\ f_globals' = SetItem(f_globals, replace(name), [name |-> name])
            /\ ret' = [status |-> "ok"]
    /\ UNCHANGED instance

\* Running the selector task bound to key in the module namespace (fn()).
run_task(key) ==
    /\ key \in DOMAIN f_globals
    /\ Called([fn |-> "task", key |-> key])
    /\ cmds' = <<>>
    /\ instance' = Some(f_globals[key].name)
    /\ ret' = [status |-> "ok"]
    /\ UNCHANGED <<has_instances, instances, f_globals>>

\* get_instance falling back to env.instance for an unknown explicit name
get_instance_fallback(instance_name) ==
    LET known == sorted(IF has_instances THEN DOMAIN instances ELSE {})
        resolved == IF Truthy(instance_name)
                       /\ instance_name.name \in DOMAIN instances
                    THEN instance_name ELSE instance
    IN  IF known = <<>>
        THEN [status |-> "abort", msg |-> "no instances"]
        ELSE IF resolved.set /\ resolved.name \in DOMAIN instances
        THEN [status |-> "ok", value |-> instances[resolved.name]]
        ELSE [status |-> "abort", msg |-> "help",
              known_instances |-> join(<<",", " ">>, known),
              instance |-> known[1]]

\* get_instance(instance_name): the outcome
get_instance_result(instance_name) ==
    LET known == sorted(IF has_instances THEN DOMAIN instances ELSE {})
        resolved == IF ~Truthy(instance_name) THEN instance ELSE instance_name
    IN  IF known = <<>>
        THEN [status |-> "abort", msg |-> "no instances"]
        ELSE IF resolved.set /\ resolved.name \in DOMAIN instances
        THEN [status |-> "ok", value |-> instances[resolved.name]]
        ELSE [status |-> "abort", msg |-> "help",
              known_instances |-> join(<<",", " ">>, known),
              instance |-> known[1]]

get_instance(instance_name) ==
    /\ Called([fn |-> "get_instance", instance_name |-> instance_name])
    /\ cmds' = <<>>
    /\ ret' = get_instance_result(instance_name)
    /\ UNCHANGED registry_vars

-----------------------------------------------------------------------------
(* Instance.with_params                                                    *)

REQUIRED == "<REQUIRED>"               \* the sentinel Instance.REQUIRED

ParamKeys == {"region", "tier"}
KwKeys    == {"region", "tier", "zone"}
Defaults  == {REQUIRED, "standard"}
KwValues  == {"eu", "x"}

\* All mappings from a subset of keys to values ({k: v, ...}).
Dicts(keys, values) == UNION {[d -> values] : d \in SUBSET keys}

\* The orders in which a dict's items() may be iterated.
Orders(d) == {s \in [1..Cardinality(DOMAIN d) -> DOMAIN d] : Range(s) = DOMAIN d}

\* the params loop without the test for a missing required parameter
RECURSIVE params_loop_unchecked(_, _, _, _)
params_loop_unchecked(order, p, k, attrs) ==
    IF order = <<>> THEN [status |-> "ok", attrs |-> attrs]
    ELSE params_loop_unchecked(Tail(order), p, k,
                               SetItem(attrs, Head(order), p[Head(order)]))

\* for k, v in params.items(): ...   (order: the iteration order left)
RECURSIVE params_loop(_, _, _, _)
params_loop(order, p, k, attrs) ==
    IF order = <<>> THEN [status |-> "ok", attrs |-> attrs]
    ELSE LET key == Head(order)
         IN  IF p[key] = REQUIRED /\ key \notin DOMAIN k
             THEN [status |-> "TypeError", msg |-> "requires", key |-> key]
             ELSE params_loop(Tail(order), p, k, SetItem(attrs, key, p[key]))

\* for k, v in kw.items(): ...
RECURSIVE kw_loop(_, _, _, _)
kw_loop(order, p, k, attrs) ==
    IF order = <<>> THEN [status |-> "ok", attrs |-> attrs]
    ELSE LET key == Head(order)
         IN  IF key \notin DOMAIN p
             THEN [status |-> "TypeError", msg |-> "unexpected", key |-> key]
             ELSE kw_loop(Tail(order), p, k, SetItem(attrs, key, k[key]))

\* The __init__ generated by with_params(**p), called with (name, host, **k).
init_with_params(name, host, p, k, porder, korder) ==
    LET base   == SetItem(SetItem(EmptyMap, "name", name), "host", host)
        first  == params_loop(porder, p, k, base)
    IN  IF first.status # "ok" THEN first
        ELSE kw_loop(korder, p, k, first.attrs)

\* Instance.with_params(**params)(name, host, **kw)
construct(name, host) ==
    /\ obj.status = "none"
    /\ \E porder \in Orders(params), korder \in Orders(kw) :
           obj' = init_with_params(name, host, params, kw, porder, korder)
    /\ UNCHANGED <<params, kw>>

\* Throw the object away and build another class with other arguments.
with_params(p, k) ==
    /\ obj.status # "none"
    /\ params' = p
    /\ kw' = k
    /\ obj' = [status |-> "none"]

-----------------------------------------------------------------------------
(* Remote commands                                                         *)

\* One remote command: run(...) or sudo(...), the program, its argument
\* words, the environment assignment in front of it, the user it runs as
\* and the directory of the enclosing cd().
Cmd(via, prog, args, environ, user, cwd) ==
    [via |-> via, prog |-> prog, args |-> args, environ |-> environ,
     user |-> user, cwd |-> cwd]

\* the positions of the commands of a log that run prog
Positions(log, prog) == {i \in DOMAIN log : log[i].prog = prog}

\* " ".join(seq) for a sequence of word lists: the words of all of them
RECURSIVE join_words(_)
join_words(seq) ==
    IF seq = <<>> THEN <<>> ELSE Head(seq) \o join_words(Tail(seq))

-----------------------------------------------------------------------------
(* install_packages                                                        *)

Pkgs == {"foo", "bar"}
MaxPkgs == 2

\* A positional argument: a string (a list of words) or a list of strings.
Str(words) == [kind |-> "str", items |-> <<words>>]
List(strings) == [kind |-> "list", items |-> strings]

\* The three documented call styles for the package names in names.
Styled(style, names) ==
    CASE style = "string" -> <<Str(names)>>
      [] style = "args"   -> [i \in DOMAIN names |-> Str(<<names[i]>>)]
      [] style = "list"   -> <<List([i \in DOMAIN names |-> <<names[i]>>])>>

Styles == {"string", "args", "list"}
NameSeqs == UNION {[1..n -> Pkgs] : n \in 0..MaxPkgs}

\* The keyword arguments tried: the two options and an unknown one.
PkgKw ==
    {k \in Dicts({"missing_only", "interactive", "verbose"}, BOOLEAN) :
        "verbose" \in DOMAIN k => k["verbose"]}

\* kw.pop(key, default)
pop(k, key, default) == IF key \in DOMAIN k THEN k[key] ELSE default

\* if len(packages) == 1 and not isinstance(packages[0], str): ...
normalize(packages) ==
    IF Len(packages) = 1 /\ packages[1].kind # "str"
    THEN packages[1].items
    ELSE [i \in DOMAIN packages |-> packages[i].items[1]]

\* package_installed(package): dpkg-query prints exactly one status
package_installed(package) == Len(package) = 1 /\ package[1] \in installed

dpkg_query(package) == Cmd("run", "dpkg-query", package, <<>>, "", "")

\* ensure_apt_not_outdated(): the commands it issues
ensure_apt_not_outdated_cmds ==
    <<Cmd("run", "find", <<"/var/lib/apt/lists">>, <<>>, "", "")>>
    \o (IF ~apt_fresh
        THEN <<Cmd("sudo", "apt-get update", <<>>, <<>>, "", "")>>
        ELSE <<>>)

\* the default of missing_only (kw.pop('missing_only', True))
missing_only_default == TRUE

\* the filter keeping every package
missing_unfiltered(packages) == packages

\* [p for p in packages if not package_installed(p)]
missing(packages) == SelectSeq(packages, LAMBDA p : ~package_installed(p))

install_packages(packages, k) ==
    LET missing_only == pop(k, "missing_only", missing_only_default)
        interactive  == pop(k, "interactive", FALSE)
        rest         == DOMAIN k \ {"missing_only", "interactive"}
        normal       == normalize(packages)
        queries      == IF missing_only
                        THEN [i \in DOMAIN normal |-> dpkg_query(normal[i])]
                        ELSE <<>>
        remaining    == IF missing_only THEN missing(normal) ELSE normal
    IN  /\ Called([fn |-> "install_packages", packages |-> packages, kw |-> k])
        /\ IF rest # {}
           THEN /\ cmds' = <<>>
                /\ ret' = [status |-> "TypeError", keys |-> rest]
                /\ UNCHANGED apt_vars
           ELSE IF remaining = <<>>
           THEN /\ cmds' = queries
                /\ ret' = [status |-> "ok"]
                /\ UNCHANGED apt_vars
           ELSE /\ cmds' = queries \o ensure_apt_not_outdated_cmds
                           \o <<Cmd("sudo", "apt-get install",
                                    join_words(remaining),
                                    IF ~interactive
                                    THEN <<"DEBIAN_FRONTEND", "noninteractive">>
                                    ELSE <<>>,
                                    "", "")>>
                /\ ret' = [status |-> "ok"]
                /\ apt_fresh' = TRUE
                /\ installed' = installed \cup Range(join_words(remaining))

-----------------------------------------------------------------------------
(* ensure_known_host, ensure_user, ensure_postgresql_user/_db               *)

HostKeys == {"key1", "key2"}
Users    == {"u1", "u2"}
DbNames  == {"db1", "db2"}
MaxLines == 2

KnownHostsPath == "/root/.ssh/known_hosts"
KnownHostsDir  == "/root/.ssh"         \* posixpath.dirname(known_hosts)

\* exists(path, use_sudo=True): the command it issues
exists_cmd(path) == Cmd("sudo", "test -e", <<path>>, <<>>, "", "")

\* fabric.contrib.files.append(filename, text, use_sudo=True, shell=True) on
\* a file with these lines: the commands it issues.  The line is echoed to
\* the file unless the file exists and contains exactly that line.
append_cmds(file, line) ==
    <<exists_cmd(KnownHostsPath)>>
    \o (IF file.exists
        THEN <<Cmd("sudo", "egrep", <<line, KnownHostsPath>>, <<>>, "", "")>>
        ELSE <<>>)
    \o (IF file.exists /\ line \in Range(file.lines)
        THEN <<>>
        ELSE <<Cmd("sudo", "echo >>", <<line, KnownHostsPath>>, <<>>, "", "")>>)

\* ... and the file it leaves
append_file(file, line) ==
    IF file.exists /\ line \in Range(file.lines)
    THEN file
    ELSE [exists |-> TRUE, lines |-> Append(file.lines, line)]

\* the test for the file, always finding it absent
file_missing_always(file) == TRUE

\* not exists(known_hosts, use_sudo=True)
file_missing(file) == ~file.exists

ensure_known_host(host_key) ==
    LET make_dir == file_missing(known_hosts) /\ ~dir_exists
        created  == IF known_hosts.exists THEN known_hosts
                    ELSE [exists |-> TRUE, lines |-> <<>>]
    IN  /\ Called([fn |-> "ensure_known_host", host_key |-> host_key])
        /\ cmds' = <<exists_cmd(KnownHostsPath)>>
                   \o (IF file_missing(known_hosts)
                       THEN <<exists_cmd(KnownHostsDir)>>
                            \o (IF make_dir
                                THEN <<Cmd("sudo", "install -d",
                                           <<"-m700", KnownHostsDir>>,
                                           <<>>, "", "")>>
                                ELSE <<>>)
                            \o <<Cmd("sudo", "touch", <<KnownHostsPath>>,
                                     <<>>, "", "")>>
                       ELSE <<>>)
                   \o append_cmds(created, host_key)
        /\ dir_exists' = TRUE
        /\ known_hosts' = append_file(created, host_key)
        /\ ret' = [status |-> "ok"]
        /\ UNCHANGED <<users, pg_roles, pg_dbs>>

ensure_user(user) ==
    LET id == Cmd("run", "id", <<user>>, <<>>, "", "")
    IN  /\ Called([fn |-> "ensure_user", user |-> user])
        /\ IF user \in users
           THEN /\ cmds' = <<id>>
                /\ UNCHANGED users
           ELSE /\ cmds' = <<id, Cmd("sudo", "adduser", <<user>>, <<>>, "root", "")>>
                /\ users' = users \cup {user}
        /\ ret' = [status |-> "ok"]
        /\ UNCHANGED <<dir_exists, known_hosts, pg_roles, pg_dbs>>

\* postgresql_user_exists(user): the query and its answer
postgresql_user_exists_cmd(user) ==
    Cmd("sudo", "psql", <<"pg_roles", user>>, <<>>, "postgres", "")
postgresql_user_exists(user) == user \in pg_roles

ensure_postgresql_user(user) ==
    /\ Called([fn |-> "ensure_postgresql_user", user |-> user])
    /\ IF ~postgresql_user_exists(user)
       THEN /\ cmds' = <<postgresql_user_exists_cmd(user),
                         Cmd("sudo", "createuser", <<"-DRS", user>>,
                             <<"LC_ALL", "C.UTF-8">>, "postgres", "")>>
            /\ pg_roles' = pg_roles \cup {user}
       ELSE /\ cmds' = <<postgresql_user_exists_cmd(user)>>
            /\ UNCHANGED pg_roles
    /\ ret' = [status |-> "ok"]
    /\ UNCHANGED <<dir_exists, known_hosts, users, pg_dbs>>

\* postgresql_db_exists(dbname): the query and its answer
postgresql_db_exists_cmd(dbname) ==
    Cmd("sudo", "psql", <<"pg_database", dbname>>, <<>>, "postgres", "")
postgresql_db_exists(dbname) == dbname \in DOMAIN pg_dbs

\* createdb fails (and sudo aborts) when the owner is not a role.
ensure_postgresql_db(dbname, owner) ==
    /\ Called([fn |-> "ensure_postgresql_db", dbname |-> dbname, owner |-> owner])
    /\ IF ~postgresql_db_exists(dbname)
       THEN /\ cmds' = <<postgresql_db_exists_cmd(dbname),
                         Cmd("sudo", "createdb", <<"-O", owner, dbname>>,
                             <<"LC_ALL", "C.UTF-8">>, "postgres", "")>>
            /\ IF owner \in pg_roles
               THEN /\ pg_dbs' = SetItem(pg_dbs, dbname, owner)
                    /\ ret' = [status |-> "ok"]
               ELSE /\ UNCHANGED pg_dbs
                    /\ ret' = [status |-> "abort", msg |-> "createdb failed"]
       ELSE /\ cmds' = <<postgresql_db_exists_cmd(dbname)>>
            /\ UNCHANGED pg_dbs
            /\ ret' = [status |-> "ok"]
    /\ UNCHANGED <<dir_exists, known_hosts, users, pg_roles>>

\* the programs that change the remote host
Mutating == {"install -d", "touch", "echo >>", "adduser", "createuser",
             "createdb", "apt-get update", "apt-get install", "git clone",
             "git fetch", "git reset", "new-changelog-entry"}

-----------------------------------------------------------------------------
(* git_clone                                                               *)

Repos    == {"git@host:repo.git"}
WorkDirs == {"/opt/a", "/opt/b"}
Socks    == {"/tmp/agent.1", "/tmp/agent.2"}

\* Raw outputs of "git describe --always": characters, with white space.
DescribeOutputs ==
    {<<"v", "1">>, <<" ", "v", "1", "\n">>, <<"\t", "a", " ", "b", " ", "\n">>}

Whitespace == {" ", "\n", "\t"}

\* str.strip()
RECURSIVE lstrip(_)
lstrip(str) ==
    IF str # <<>> /\ Head(str) \in Whitespace THEN lstrip(Tail(str)) ELSE str

RECURSIVE rstrip(_)
rstrip(str) ==
    IF str # <<>> /\ str[Len(str)] \in Whitespace
    THEN rstrip(SubSeq(str, 1, Len(str) - 1))
    ELSE str

strip(str) == rstrip(lstrip(str))

\* the environment in front of "git fetch" and "git clone"
auth_environ(sock) == <<"SSH_AUTH_SOCK", sock>>

\* the force branch resetting before it fetches
force_cmds_reset_first(sock, work_dir) ==
    <<Cmd("sudo", "git reset", <<"origin/master">>, <<>>, "", work_dir),
      Cmd("sudo", "git fetch", <<>>, auth_environ(sock), "", work_dir)>>

\* the commands of the force branch
force_cmds(sock, work_dir) ==
    <<Cmd("sudo", "git fetch", <<>>, auth_environ(sock), "", work_dir),
      Cmd("sudo", "git reset", <<"origin/master">>, <<>>, "", work_dir)>>

\* the test that selects the force branch
takes_force_branch(has_git, force) == has_git /\ force

\* git refuses to clone into a directory that holds a working tree, and
\* sudo() aborts on the failed command.
git_clone(git_repo, work_dir, force) ==
    LET has_git == work_dir \in git_dirs
        first   == <<Cmd("run", "echo", <<"$SSH_AUTH_SOCK">>, <<>>, "", ""),
                     Cmd("run", "test -e", <<work_dir, ".git">>, <<>>, "", "")>>
        clone   == Cmd("sudo", "git clone", <<git_repo, work_dir>>,
                       auth_environ(ssh_auth_sock), "", "")
        last    == Cmd("sudo", "git describe", <<"--always">>, <<>>, "",
                       work_dir)
    IN  /\ Called([fn |-> "git_clone", git_repo |-> git_repo,
                   work_dir |-> work_dir, force |-> force,
                   had_git |-> has_git])
        /\ IF takes_force_branch(has_git, force)
           THEN /\ cmds' = first \o force_cmds(ssh_auth_sock, work_dir) \o <<last>>
                /\ describe_out' \in DescribeOutputs
                /\ ret' = [status |-> "ok", value |-> strip(describe_out')]
                /\ UNCHANGED git_dirs
           ELSE IF has_git
           THEN /\ cmds' = first \o <<clone>>
                /\ ret' = [status |-> "abort", msg |-> "git clone failed"]
                /\ UNCHANGED <<git_dirs, describe_out>>
           ELSE /\ cmds' = first \o <<clone, last>>
                /\ git_dirs' = git_dirs \cup {work_dir}
                /\ describe_out' \in DescribeOutputs
                /\ ret' = [status |-> "ok", value |-> strip(describe_out')]
        /\ UNCHANGED ssh_auth_sock

-----------------------------------------------------------------------------
(* changelog, changelog_append                                             *)

\* A message is a list of tokens; "{name}" is a replacement field.
Messages == {<<"deployed">>, <<"deployed", "{name}">>, <<"{name}", "is", "up">>}

\* context: None, or the mapping the message is formatted with
NoContext == [given |-> FALSE, name |-> ""]
Context(n) == [given |-> TRUE, name |-> n]
Contexts == {NoContext, Context("prod"), Context("staging")}

\* message.format(**context)
format(message, context) ==
    [i \in DOMAIN message |->
        IF message[i] = "{name}" THEN context.name ELSE message[i]]

\* pipes.quote(message): quoted unless it is one word of safe characters
quote(message) ==
    IF Len(message) = 1 /\ message[1] # "{name}"
    THEN message
    ELSE <<"'">> \o message \o <<"'">>

ScriptPath == "/usr/sbin/new-changelog-entry"

\* the test ignoring optional
writes_entry_always(script, optional) == TRUE

\* the test that decides whether the entry is written
writes_entry(script, optional) == script \/ ~optional

\* the flags of new-changelog-entry
changelog_flags(append) == IF append THEN <<"-a">> ELSE <<>>

\* The body of changelog(); fn and c are the call as the caller made it.
changelog_body(c, message, context, append, optional) ==
    LET text == IF context.given THEN format(message, context) ELSE message
        cmd  == Cmd("sudo", "new-changelog-entry",
                    changelog_flags(append) \o quote(text), <<>>, "root", "")
        test == Cmd("run", "test -e", <<ScriptPath>>, <<>>, "", "")
    IN  /\ Called(c)
        /\ IF writes_entry(script_exists, optional)
           THEN /\ cmds' = <<test, cmd>>
                /\ ret' = IF script_exists THEN [status |-> "ok"]
                          ELSE [status |-> "abort", msg |-> "command failed"]
           ELSE /\ cmds' = <<test>>
                /\ ret' = [status |-> "ok"]
        /\ UNCHANGED script_exists

changelog(message, context, append, optional) ==
    changelog_body([fn |-> "changelog", message |-> message,
                    context |-> context, append |-> append,
                    optional |-> optional],
                   message, context, append, optional)

\* changelog(message, context, append=True)
changelog_append(message, context) ==
    changelog_body([fn |-> "changelog_append", message |-> message,
                    context |-> context],
                   message, context, TRUE, TRUE)

-----------------------------------------------------------------------------
(* Initial values of the parts of the state a specification does not use   *)

RegistryIdle ==
    /\ has_instances = FALSE
    /\ instances = EmptyMap
    /\ instance = None
    /\ f_globals = EmptyMap

ParamsIdle ==
    /\ params = EmptyMap
    /\ kw = EmptyMap
    /\ obj = [status |-> "none"]

AptIdle ==
    /\ installed = {}
    /\ apt_fresh = TRUE

EnsureIdle ==
    /\ dir_exists = FALSE
    /\ known_hosts = [exists |-> FALSE, lines |-> <<>>]
    /\ users = {}
    /\ pg_roles = {}
    /\ pg_dbs = EmptyMap

GitIdle ==
    /\ git_dirs = {}
    /\ ssh_auth_sock = ""
    /\ describe_out = <<>>

ChangelogIdle == script_exists = FALSE

LogIdle ==
    /\ call = [fn |-> "none"]
    /\ again = FALSE
    /\ cmds = <<>>
    /\ ret = [status |-> "none"]

-----------------------------------------------------------------------------
(* The instance registry: define, select, look up                          *)

\* env.instance may be preset from the command line (fab --set instance=..).
Init ==
    /\ has_instances = FALSE
    /\ instances = EmptyMap
    /\ instance \in OptNames
    /\ f_globals = EmptyMap
    /\ ParamsIdle /\ AptIdle /\ EnsureIdle /\ GitIdle /\ ChangelogIdle
    /\ LogIdle

not_registry_vars ==
    <<params_vars, apt_vars, ensure_vars, git_vars, script_exists>>

Define ==
    /\ \E name \in Names, host \in Hosts : define(name, host)
    /\ UNCHANGED not_registry_vars

RunTask ==
    /\ \E key \in DOMAIN f_globals : run_task(key)
    /\ UNCHANGED not_registry_vars

GetInstance ==
    /\ \E instance_name \in OptNames : get_instance(instance_name)
    /\ UNCHANGED not_registry_vars

Next == Define \/ RunTask \/ GetInstance

Spec == Init /\ [][Next]_vars

-----------------------------------------------------------------------------
(* The with_params constructor on every schema and every keyword set       *)

InitParams ==
    /\ params \in Dicts(ParamKeys, Defaults)
    /\ kw \in Dicts(KwKeys, KwValues)
    /\ obj = [status |-> "none"]
    /\ RegistryIdle /\ AptIdle /\ EnsureIdle /\ GitIdle /\ ChangelogIdle
    /\ LogIdle

not_params_vars ==
    <<registry_vars, apt_vars, ensure_vars, git_vars, script_exists, log_vars>>

Construct ==
    /\ construct(Prod, "h1")
    /\ UNCHANGED not_params_vars

WithParams ==
    /\ \E p \in Dicts(ParamKeys, Defaults), k \in Dicts(KwKeys, KwValues) :
           with_params(p, k)
    /\ UNCHANGED not_params_vars

NextParams == Construct \/ WithParams

SpecParams == InitParams /\ [][NextParams]_vars

-----------------------------------------------------------------------------
(* install_packages from every state of the package database               *)

InitPackages ==
    /\ installed \in SUBSET Pkgs
    /\ apt_fresh \in BOOLEAN
    /\ RegistryIdle /\ ParamsIdle /\ EnsureIdle /\ GitIdle /\ ChangelogIdle
    /\ LogIdle

InstallPackages ==
    /\ \E style \in Styles, names \in NameSeqs, k \in PkgKw :
           install_packages(Styled(style, names), k)
    /\ UNCHANGED <<registry_vars, params_vars, ensure_vars, git_vars,
                   script_exists>>

NextPackages == InstallPackages

SpecPackages == InitPackages /\ [][NextPackages]_vars

-----------------------------------------------------------------------------
(* The ensure_* helpers from every state of the remote host                *)

InitEnsure ==
    /\ dir_exists \in BOOLEAN
    /\ known_hosts \in
           {[exists |-> FALSE, lines |-> <<>>]}
           \cup {[exists |-> TRUE, lines |-> l] :
                   l \in UNION {[1..n -> HostKeys] : n \in 0..MaxLines}}
    /\ known_hosts.exists => dir_exists
    /\ users \in SUBSET Users
    /\ pg_roles \in SUBSET Users
    /\ pg_dbs \in Dicts(DbNames, Users)
    /\ RegistryIdle /\ ParamsIdle /\ AptIdle /\ GitIdle /\ ChangelogIdle
    /\ LogIdle

not_ensure_vars ==
    <<registry_vars, params_vars, apt_vars, git_vars, script_exists>>

EnsureKnownHost ==
    /\ \E host_key \in HostKeys : ensure_known_host(host_key)
    /\ UNCHANGED not_ensure_vars

EnsureUser ==
    /\ \E user \in Users : ensure_user(user)
    /\ UNCHANGED not_ensure_vars

EnsurePostgresqlUser ==
    /\ \E user \in Users : ensure_postgresql_user(user)
    /\ UNCHANGED not_ensure_vars

EnsurePostgresqlDb ==
    /\ \E dbname \in DbNames, owner \in Users :
           ensure_postgresql_db(dbname, owner)
    /\ UNCHANGED not_ensure_vars

NextEnsure ==
    \/ EnsureKnownHost
    \/ EnsureUser
    \/ EnsurePostgresqlUser
    \/ EnsurePostgresqlDb

SpecEnsure == InitEnsure /\ [][NextEnsure]_vars

-----------------------------------------------------------------------------
(* git_clone from every state of the work directories                      *)

InitGit ==
    /\ git_dirs \in SUBSET WorkDirs
    /\ ssh_auth_sock \in Socks
    /\ describe_out \in DescribeOutputs
    /\ RegistryIdle /\ ParamsIdle /\ AptIdle /\ EnsureIdle /\ ChangelogIdle
    /\ LogIdle

GitClone ==
    /\ \E git_repo \in Repos, work_dir \in WorkDirs, force \in BOOLEAN :
           git_clone(git_repo, work_dir, force)
    /\ UNCHANGED <<registry_vars, params_vars, apt_vars, ensure_vars,
                   script_exists>>

NextGit == GitClone

SpecGit == InitGit /\ [][NextGit]_vars

-----------------------------------------------------------------------------
(* changelog with and without pov-admin-tools on the remote host           *)

InitChangelog ==
    /\ script_exists \in BOOLEAN
    /\ RegistryIdle /\ ParamsIdle /\ AptIdle /\ EnsureIdle /\ GitIdle
    /\ LogIdle

not_changelog_vars ==
    <<registry_vars, params_vars, apt_vars, ensure_vars, git_vars>>

Changelog ==
    /\ \E message \in Messages, context \in Contexts,
          append \in BOOLEAN, optional \in BOOLEAN :
           changelog(message, context, append, optional)
    /\ UNCHANGED not_changelog_vars

ChangelogAppend ==
    /\ \E message \in Messages, context \in Contexts :
           changelog_append(message, context)
    /\ UNCHANGED not_changelog_vars

NextChangelog == Changelog \/ ChangelogAppend

SpecChangelog == InitChangelog /\ [][NextChangelog]_vars

-----------------------------------------------------------------------------
(* Properties                                                              *)

\* how often x occurs in seq
Count(seq, x) == Cardinality({i \in DOMAIN seq : seq[i] = x})

\* the registered names
Registered == DOMAIN instances

\* C1: the registry holds at most one instance per name.  A define of a
\* registered name aborts and changes neither the registry nor the selector
\* tasks; a define of a new name succeeds, adds exactly that instance and
\* keeps every other one; nothing else changes the registry; and every
\* registered instance is found under its own name.
C1_DefineOncePerName ==
    /\ [][IF call'.fn = "define"
          THEN IF call'.name \in Registered
               THEN /\ ret'.status = "abort"
                    /\ instances' = instances
                    /\ f_globals' = f_globals
               ELSE /\ ret'.status = "ok"
                    /\ DOMAIN instances' = Registered \cup {call'.name}
                    /\ instances'[call'.name].host = call'.host
                    /\ \A n \in Registered : instances'[n] = instances[n]
          ELSE instances' = instances]_vars
    /\ [](\A n \in Registered : instances[n].name = n)

\* A second define of a registered name, with another host, was refused.
C1_Witness ==
    /\ call.fn = "define"
    /\ ret.status = "abort"
    /\ Cardinality(Registered) >= 2
    /\ instances[call.name].host # call.host

\* The help message of get_instance for the registered names: they are
\* listed in ascending order and the least of them is suggested.
HelpFor(r) ==
    /\ r.status = "abort"
    /\ r.msg = "help"
    /\ \E listing \in [1..Cardinality(Registered) -> Registered] :
          /\ \A i, j \in DOMAIN listing : i < j => LexLess(listing[i], listing[j])
          /\ r.known_instances = join(<<",", " ">>, listing)
    /\ r.instance \in Registered
    /\ \A n \in Registered \ {r.instance} : LexLess(r.instance, n)

\* C2 as stated: for every registry, an explicit registered name returns
\* that instance, no explicit name returns the current instance, and
\* everything else aborts with the help message that lists the registered
\* names in sorted order and suggests one of them.
C2_AlwaysHelpMessage ==
    call.fn = "get_instance" =>
        LET arg      == call.instance_name
            resolved == IF arg.set THEN arg ELSE instance
        IN  IF resolved.set /\ resolved.name \in Registered
            THEN ret.status = "ok" /\ ret.value = instances[resolved.name]
            ELSE HelpFor(ret)

\* C2, amended: with no instance registered get_instance aborts with the
\* "no instances defined" message.  Otherwise a non-empty explicit name
\* is the resolved name, and None or '' resolves to env.instance; the instance
\* registered under the resolved name is returned, and if there is none the
\* call aborts with the help message that lists the registered names in
\* sorted order and suggests the first.
C2_ResolveOrHelp ==
    call.fn = "get_instance" =>
        LET arg      == call.instance_name
            explicit == arg.set /\ arg.name # NoName
            resolved == IF explicit THEN arg ELSE instance
        IN  IF Registered = {}
            THEN ret.status = "abort" /\ ret.msg = "no instances"
            ELSE IF resolved.set /\ resolved.name \in Registered
            THEN /\ ret.status = "ok"
                 /\ ret.value = instances[resolved.name]
                 /\ ret.value.name = resolved.name
            ELSE HelpFor(ret)

\* An unknown explicit name aborted although env.instance names one of
\* several registered instances.
C2_Witness ==
    /\ call.fn = "get_instance"
    /\ call.instance_name.set
    /\ call.instance_name.name # NoName
    /\ call.instance_name.name \notin Registered
    /\ instance.set /\ instance.name \in Registered
    /\ Cardinality(Registered) >= 2
    /\ ret.status = "abort"

\* C3: the constructor of with_params(**params) fails naming a missing
\* required parameter if there is one; else it fails naming an undeclared
\* keyword if there is one; else it succeeds, and every declared parameter
\* has the keyword value if supplied and the declared default if not.
C3_WithParamsConstructor ==
    obj.status # "none" =>
        LET absent == {k \in DOMAIN params :
                          params[k] = REQUIRED /\ k \notin DOMAIN kw}
            extra  == DOMAIN kw \ DOMAIN params
        IN  IF absent # {}
            THEN /\ obj.status = "TypeError"
                 /\ obj.msg = "requires"
                 /\ obj.key \in absent
            ELSE IF extra # {}
            THEN /\ obj.status = "TypeError"
                 /\ obj.msg = "unexpected"
                 /\ obj.key \in extra
            ELSE /\ obj.status = "ok"
                 /\ DOMAIN obj.attrs = DOMAIN params \cup {"name", "host"}
                 /\ \A k \in DOMAIN params :
                        obj.attrs[k] = IF k \in DOMAIN kw THEN kw[k]
                                       ELSE params[k]

\* required region, optional tier: region="eu" gives tier == "standard"
C3_Witness ==
    /\ obj.status = "ok"
    /\ DOMAIN params = {"region", "tier"}
    /\ params["region"] = REQUIRED
    /\ params["tier"] = "standard"
    /\ DOMAIN kw = {"region"}
    /\ obj.attrs["region"] = "eu"
    /\ obj.attrs["tier"] = "standard"

\* the programs of the commands of a log that are run with sudo
Privileged(log) == {i \in DOMAIN log : log[i].via = "sudo"}

\* C4: with a .git directory in the destination and force false, git_clone
\* aborts and issues no fetch, no reset and no clone command.
C4_AbortsWithoutCommands ==
    (call.fn = "git_clone" /\ call.had_git /\ ~call.force) =>
        /\ ret.status = "abort"
        /\ \A i \in DOMAIN cmds :
               cmds[i].prog \notin {"git fetch", "git reset", "git clone"}

\* v is raw without its leading and trailing white space
Trimmed(v, raw) ==
    /\ v # <<>> => v[1] \notin Whitespace /\ v[Len(v)] \notin Whitespace
    /\ \E i \in 0..Len(raw), j \in 0..Len(raw) :
          /\ i + Len(v) + j = Len(raw)
          /\ \A n \in 1..i : raw[n] \in Whitespace
          /\ \A n \in 1..j : raw[Len(raw) + 1 - n] \in Whitespace
          /\ \A n \in 1..Len(v) : raw[i + n] = v[n]

\* The order of the commands of a successful git_clone: the auth socket is
\* read first; without .git exactly one clone and no fetch or reset; with
\* .git and force one fetch, one reset after it and no clone; the commit
\* descriptor is read last and returned trimmed.
GitOrder ==
    LET clones  == Positions(cmds, "git clone")
        fetches == Positions(cmds, "git fetch")
        resets  == Positions(cmds, "git reset")
    IN  /\ cmds[1].prog = "echo" /\ cmds[1].args = <<"$SSH_AUTH_SOCK">>
        /\ ~call.had_git =>
               Cardinality(clones) = 1 /\ fetches = {} /\ resets = {}
        /\ (call.had_git /\ call.force) =>
               /\ Cardinality(fetches) = 1
               /\ Cardinality(resets) = 1
               /\ clones = {}
               /\ \A f \in fetches, r \in resets :
                      f < r /\ cmds[r].args = <<"origin/master">>
        /\ \A i \in clones \cup fetches \cup resets :
               /\ cmds[i].via = "sudo"
               /\ 1 < i /\ i < Len(cmds)
        /\ cmds[Len(cmds)].prog = "git describe"
        /\ Trimmed(ret.value, describe_out)

\* C5 as stated: on every successful run the commands follow that order
\* and the clone, the fetch and the reset each re-export the captured
\* auth socket.
C5_AllReexport ==
    (call.fn = "git_clone" /\ ret.status = "ok") =>
        /\ GitOrder
        /\ \A i \in DOMAIN cmds :
               cmds[i].prog \in {"git clone", "git fetch", "git reset"} =>
                   cmds[i].environ = <<"SSH_AUTH_SOCK", ssh_auth_sock>>

\* C5, amended: on every successful run the commands follow that order;
\* the clone and the fetch re-export the captured auth socket, the reset
\* is issued without it.
C5_CloneAndFetchReexport ==
    (call.fn = "git_clone" /\ ret.status = "ok") =>
        /\ GitOrder
        /\ \A i \in DOMAIN cmds :
               /\ cmds[i].prog \in {"git clone", "git fetch"} =>
                      cmds[i].environ = <<"SSH_AUTH_SOCK", ssh_auth_sock>>
               /\ cmds[i].prog = "git reset" => cmds[i].environ = <<>>

\* A forced update returned a descriptor that had to be trimmed.
C5_Witness ==
    /\ call.fn = "git_clone"
    /\ call.had_git /\ call.force
    /\ ret.status = "ok"
    /\ ret.value # describe_out
    /\ Len(cmds) = 5

\* the words of all the strings of a call's positional arguments
NamesOf(packages) ==
    join_words([i \in DOMAIN packages |-> join_words(packages[i].items)])

\* the strings of a call's positional arguments
StringsOf(packages) == join_words([i \in DOMAIN packages |-> packages[i].items])

\* the value of an option of install_packages in the call's keywords
Option(k, key, default) == IF key \in DOMAIN k THEN k[key] ELSE default

\* the packages whose presence a log queries, in order
Queried(log) ==
    LET at == SelectSeq([i \in DOMAIN log |-> i],
                        LAMBDA i : log[i].prog = "dpkg-query")
    IN  [n \in DOMAIN at |-> log[at[n]].args]

\* C6: whichever of the three call styles names two or more packages, the
\* packages queried for presence and considered for installation are the
\* individual package names, in order.
C6_SameNamesInEveryStyle ==
    (call.fn = "install_packages" /\ ret.status = "ok"
        /\ Option(call.kw, "missing_only", TRUE)
        /\ Len(NamesOf(call.packages)) >= 2) =>
        LET names == NamesOf(call.packages)
        IN  Queried(cmds) = [i \in DOMAIN names |-> <<names[i]>>]

EnsureFns == {"ensure_known_host", "ensure_user", "ensure_postgresql_user",
              "ensure_postgresql_db"}

C9_ChangelogSoftDependency ==
    call.fn \in {"changelog", "changelog_append"} =>
        LET optional == IF call.fn = "changelog" THEN call.optional ELSE TRUE
            append   == IF call.fn = "changelog" THEN call.append ELSE TRUE
            sudos    == Privileged(cmds)
        IN  IF ~script_exists /\ optional
            THEN sudos = {} /\ ret.status = "ok"
            ELSE /\ Cardinality(sudos) = 1
                 /\ \A i \in sudos :
                        /\ cmds[i].prog = "new-changelog-entry"
                        /\ cmds[i].user = "root"
                        /\ ("-a" \in Range(cmds[i].args)) <=> append

\* changelog was skipped: the script is absent and optional was true.
C9_Witness ==
    /\ call.fn = "changelog"
    /\ call.optional
    /\ call.append
    /\ ~script_exists
    /\ ret.status = "ok"
    /\ Len(cmds) = 1

\* C10: every defined instance has its selector task bound in the module
\* namespace, and a selector task sets env.instance to its instance's name.
C10_OneTaskPerInstance ==
    /\ \A n \in Registered : \E key \in DOMAIN f_globals : f_globals[key].name = n
    /\ call.fn = "task" => instance = Some(f_globals[call.key].name)

====
